---- MODULE Spec2Model ----
(***************************************************************************)
(* boltviewer: a neovim remote plugin that shows a bbolt store as text     *)
(* lines and writes edits back (src/main.go).                              *)
(*                                                                         *)
(* Strings are sequences of one-character strings.  A store is a function *)
(* from bucket names to functions from keys to values; its domain is the   *)
(* set of buckets that exist.                                              *)
(***************************************************************************)
EXTENDS Integers, Sequences, FiniteSets, TLC

VARIABLES
    files,     \* path -> store held in the bbolt file of that path
    db,        \* the global handle: a path, or NoDB for a nil *bbolt.DB
    open,      \* paths whose bbolt file is held open by a handle not yet closed
    buffer,    \* lines of the current buffer of the host editor (never empty)
    cursor,    \* line(".") in the current buffer, 1-based
    keymaps,   \* the bc / bd buffer keymaps have been registered
    running,   \* the plugin process is alive
    last,      \* the last operation: its name, the bucket name it got, its result
    pc,        \* position of the scenario that drives the handlers
    isEntry,   \* the local isEntry of the last pattern match
    val        \* the local val of the last pattern match

vars == <<files, db, open, buffer, cursor, keymaps, running, last, pc, isEntry, val>>

-----------------------------------------------------------------------------
(* Bounds *)

MaxLineLen == 4      \* longest line enumerated for the pattern match
MaxBuckets == 3      \* buckets of the stores listed by the listing scenario

Paths == {"p1", "p2"}                 \* the *.boltdb documents
NoDB == "no db"                       \* var db *bbolt.DB before any Open

-----------------------------------------------------------------------------
(* Characters and strings *)

SP == " "
TAB == "\t"
WS == {SP, TAB}

Min(a, b) == IF a < b THEN a ELSE b
Max(a, b) == IF a > b THEN a ELSE b

\* Byte value of the characters the model uses (bbolt orders keys bytewise).
CharCode(c) ==
    CASE c = TAB -> 9
      [] c = SP  -> 32
      [] c = "=" -> 61
      [] c = ">" -> 62
      [] c = "a" -> 97
      [] c = "b" -> 98
      [] c = "c" -> 99
      [] c = "d" -> 100
      [] c = "f" -> 102
      [] c = "k" -> 107
      [] c = "o" -> 111
      [] c = "r" -> 114
      [] c = "v" -> 118
      [] c = "w" -> 119
      [] OTHER   -> 120

\* bytes.Compare(s, t) < 0
RECURSIVE BytesLess(_, _)
BytesLess(s, t) ==
    IF t = <<>> THEN FALSE
    ELSE IF s = <<>> THEN TRUE
    ELSE IF CharCode(Head(s)) # CharCode(Head(t))
         THEN CharCode(Head(s)) < CharCode(Head(t))
    ELSE BytesLess(Tail(s), Tail(t))

\* The elements of a finite set of strings in ascending byte order.
RECURSIVE SortedSeq(_)
SortedSeq(S) ==
    IF S = {} THEN <<>>
    ELSE LET lo == CHOOSE x \in S : \A y \in S \ {x} : BytesLess(x, y)
         IN  <<lo>> \o SortedSeq(S \ {lo})

-----------------------------------------------------------------------------
(* The two patterns *)

\* HasLeadingSpace.MatchString(s): ^[ \t]+.*$
HasLeadingSpace(s) == Len(s) >= 1 /\ s[1] \in WS

\* EntryRegexMatches with the ">" of the arrow left out of the pattern.
EntryRegexNoGt(s) ==
    LET n == Len(s)
        Is == { i \in 1..n : \A x \in 1..i : s[x] \in WS }
        Js(i) == { j \in i..n : \A x \in (i+1)..j : s[x] \notin {SP, "="} }
        Ks(j) == { k \in j..(n-2) :
                     /\ \A x \in (j+1)..k : s[x] \in WS
                     /\ s[k+1] = "=" }
        Ls(k) == { l \in (k+2)..(n-1) :
                     /\ \A x \in (k+3)..l : s[x] \in WS
                     /\ s[l+1] \notin WS }
    IN  UNION { UNION { UNION { { <<i, j, k, l>> : l \in Ls(k) }
                                : k \in Ks(j) }
                        : j \in Js(i) }
                : i \in Is }

\* The ways EntryRegex matches s: <<i, j, k, l>> where s[1..i] is the
\* indentation, s[i+1..j] the key group, s[j+1..k] blanks, s[k+1..k+2] the
\* arrow, s[k+3..l] blanks and s[l+1..] the value group.
EntryRegexMatches(s) ==
    LET n == Len(s)
        Is == { i \in 1..n : \A x \in 1..i : s[x] \in WS }
        Js(i) == { j \in i..n : \A x \in (i+1)..j : s[x] \notin {SP, "="} }
        Ks(j) == { k \in j..(n-2) :
                     /\ \A x \in (j+1)..k : s[x] \in WS
                     /\ s[k+1] = "="
                     /\ s[k+2] = ">" }
        Ls(k) == { l \in (k+2)..(n-1) :
                     /\ \A x \in (k+3)..l : s[x] \in WS
                     /\ s[l+1] \notin WS }
    IN  UNION { UNION { UNION { { <<i, j, k, l>> : l \in Ls(k) }
                                : k \in Ks(j) }
                        : j \in Js(i) }
                : i \in Is }

\* Every quantifier of the pattern is greedy: the match the engine reports
\* is the one that takes the longest indentation, then the longest key, ...
Prefers(t, u) ==
    \/ t[1] > u[1]
    \/ t[1] = u[1] /\ t[2] > u[2]
    \/ t[1] = u[1] /\ t[2] = u[2] /\ t[3] > u[3]
    \/ t[1] = u[1] /\ t[2] = u[2] /\ t[3] = u[3] /\ t[4] >= u[4]

\* EntryRegex.FindStringSubmatch(s): <<>> (nil) when s does not match, else
\* <<whole match, key group, value group>>.
FindStringSubmatch(s) ==
    LET M == EntryRegexMatches(s)
    IN  IF M = {} THEN <<>>
        ELSE LET t == CHOOSE t \in M : \A u \in M : Prefers(t, u)
             IN  <<s, SubSeq(s, t[1] + 1, t[2]), SubSeq(s, t[4] + 1, Len(s))>>

-----------------------------------------------------------------------------
(* The bbolt calls the handlers make, on a store st *)

OK == "nil"                                     \* a nil error
ErrBucketNameRequired == "bucket name required"
ErrKeyRequired == "key required"
ErrBucketHasEntry == "bucket has entry, should delete entry first"
ErrNoMatch == "failed to match key => val"
ErrGetBucket == "failed to get bolt bucket"
ErrOpen == "failed to open bolt"
Panic == "panic: nil pointer dereference"
Blocked == "blocked"

EmptyBucket == [k \in {} |-> <<>>]
EmptyStore == [b \in {} |-> EmptyBucket]

\* tx.Bucket(name) # nil
HasBucket(st, name) == name \in DOMAIN st

\* tx.CreateBucketIfNotExists(name): the error and the store afterwards
CreateBucketIfNotExists(st, name) ==
    IF name = <<>> THEN [err |-> ErrBucketNameRequired, st |-> st]
    ELSE IF HasBucket(st, name) THEN [err |-> OK, st |-> st]
    ELSE [err |-> OK,
          st |-> [b \in DOMAIN st \cup {name} |->
                     IF b = name THEN EmptyBucket ELSE st[b]]]

\* BucketPut that keeps the value of a key that is already there.
BucketPutIfAbsent(st, name, key, value) ==
    IF key = <<>> THEN [err |-> ErrKeyRequired, st |-> st]
    ELSE [err |-> OK,
          st |-> [st EXCEPT ![name] =
                     [k \in DOMAIN st[name] \cup {key} |->
                         IF k \in DOMAIN st[name] THEN st[name][k] ELSE value]]]

\* bkt.Put(key, value) on bucket name of st
BucketPut(st, name, key, value) ==
    IF key = <<>> THEN [err |-> ErrKeyRequired, st |-> st]
    ELSE [err |-> OK,
          st |-> [st EXCEPT ![name] =
                     [k \in DOMAIN st[name] \cup {key} |->
                         IF k = key THEN value ELSE st[name][k]]]]

\* bkt.Delete(key) on bucket name of st: nil also when the key is absent
BucketDelete(st, name, key) ==
    [err |-> OK,
     st |-> [st EXCEPT ![name] =
                [k \in DOMAIN st[name] \ {key} |-> st[name][k]]]]

\* tx.DeleteBucket(name), called on a bucket that exists
DeleteBucket(st, name) ==
    [err |-> OK, st |-> [b \in DOMAIN st \ {name} |-> st[b]]]

-----------------------------------------------------------------------------
(* The host editor's buffer *)

\* nvim_buf_set_lines(buf, start, end, strict_indexing = false, repl):
\* negative indices count from the end (-1 is one past the last line),
\* out-of-range indices are clamped, and a buffer keeps at least one line.
SetBufferLines(buf, start, end, repl) ==
    LET n == Len(buf)
        norm(i) == IF i < 0 THEN n + 1 + i ELSE i
        s == Max(0, Min(n, norm(start)))
        e == Max(0, Min(n, norm(end)))
        res == SubSeq(buf, 1, s) \o repl \o SubSeq(buf, e + 1, n)
    IN  IF s > e THEN buf
        ELSE IF res = <<>> THEN << <<>> >>
        ELSE res

\* deleteLine: removes the line under the cursor
deleteLine(buf, line) ==
    IF line > 0 THEN SetBufferLines(buf, line - 1, line, <<>>) ELSE buf

-----------------------------------------------------------------------------
(* DeleteBucketOrEntry *)

\* The record of an operation; pre is the store the handle held before it.
Result(op, bktname, res) ==
    [op |-> op, bkt |-> bktname, res |-> res,
     pre |-> IF db = NoDB THEN EmptyStore ELSE files[db]]

\* Branch with the mismatch falling through to the bucket branch.
BranchNoReject(eval) ==
    IF ~HasLeadingSpace(eval) THEN "bucket"
    ELSE IF Len(FindStringSubmatch(eval)) = 3 THEN "entry"
    ELSE "bucket"

\* The branch a handler takes on the line eval (lines 40-44 and 61-64,
\* 95-99 and 116-119).
Branch(eval) ==
    IF ~HasLeadingSpace(eval) THEN "bucket"
    ELSE IF Len(FindStringSubmatch(eval)) = 3 THEN "entry"
    ELSE "nomatch"

\* The closure passed to db.Update at lines 47-59, on store st with the
\* buffer buf and the cursor on line: the error it returns, the store it
\* leaves in the transaction and the buffer.
DeleteEntryTx(st, buf, line, bktname, key) ==
    LET c == IF HasBucket(st, bktname) THEN [err |-> OK, st |-> st]
             ELSE CreateBucketIfNotExists(st, bktname)
    IN  IF c.err # OK THEN [err |-> c.err, st |-> st, buf |-> buf]
        ELSE LET d == BucketDelete(c.st, bktname, key)
             IN  [err |-> d.err, st |-> d.st, buf |-> deleteLine(buf, line)]

\* DeleteBucketTx without the look at the bucket's first key.
DeleteBucketTxAnyway(st, buf, line, bktname) ==
    IF ~HasBucket(st, bktname) THEN [err |-> OK, st |-> st, buf |-> buf]
    ELSE [err |-> OK, st |-> [b \in DOMAIN st \ {bktname} |-> st[b]],
          buf |-> deleteLine(buf, line)]

\* The closure passed to db.Update at lines 66-84.
DeleteBucketTx(st, buf, line, bktname) ==
    IF ~HasBucket(st, bktname) THEN [err |-> OK, st |-> st, buf |-> buf]
    ELSE IF DOMAIN st[bktname] = {}
         THEN LET d == DeleteBucket(st, bktname)
              IN  IF d.err # OK THEN [err |-> d.err, st |-> st, buf |-> buf]
                  ELSE [err |-> OK, st |-> d.st, buf |-> deleteLine(buf, line)]
    ELSE [err |-> ErrBucketHasEntry, st |-> st, buf |-> buf]

\* db.Update(fn): commits what fn did when fn returns nil, rolls back
\* otherwise; what fn did to the buffer stays.
Update(st, tx) == IF tx.err = OK THEN tx.st ELSE st

\* The closure DeleteBucketOrEntry runs for the line eval, if it runs one.
DeleteTx(st, buf, line, bktname) ==
    LET eval == buf[line]
        v == FindStringSubmatch(eval)
    IN  IF Branch(eval) = "entry"
        THEN DeleteEntryTx(st, buf, line, bktname, v[2])
        ELSE DeleteBucketTx(st, buf, line, bktname)

\* The handler reaches a db.Update call on the line eval.
StartsTx(eval) == Branch(eval) # "nomatch"

\* What DeleteBucketOrEntry returns when its transaction returned err.
DeleteReturn(err) == err

DeleteBucketOrEntry(callOk, bktname) ==
    LET eval == buffer[cursor] IN
    /\ running
    /\ UNCHANGED <<db, open, keymaps, isEntry, val>>
    /\ IF ~callOk
       THEN /\ last' = Result("delete", bktname, ErrGetBucket)
            /\ UNCHANGED <<files, buffer, cursor, running>>
       ELSE IF ~StartsTx(eval)
       THEN /\ last' = Result("delete", bktname, ErrNoMatch)
            /\ UNCHANGED <<files, buffer, cursor, running>>
       ELSE IF db = NoDB
       THEN /\ last' = Result("delete", bktname, Panic)
            /\ running' = FALSE
            /\ UNCHANGED <<files, buffer, cursor>>
       ELSE LET tx == DeleteTx(files[db], buffer, cursor, bktname)
            IN  /\ files' = [files EXCEPT ![db] = Update(files[db], tx)]
                /\ buffer' = tx.buf
                /\ cursor' = Min(cursor, Len(tx.buf))
                /\ last' = Result("delete", bktname, DeleteReturn(tx.err))
                /\ UNCHANGED running

-----------------------------------------------------------------------------
(* CreateBucketOrEntry *)

\* The closure passed to db.Update at lines 103-114.
CreateEntryTx(st, bktname, key, value) ==
    LET c == IF HasBucket(st, bktname) THEN [err |-> OK, st |-> st]
             ELSE CreateBucketIfNotExists(st, bktname)
    IN  IF c.err # OK THEN [err |-> c.err, st |-> st]
        ELSE BucketPut(c.st, bktname, key, value)

\* The closure passed to db.Update at lines 121-125.
CreateBucketTx(st, bktname) == CreateBucketIfNotExists(st, bktname)

\* The closure CreateBucketOrEntry runs for the line eval, if it runs one.
CreateTx(st, eval, bktname) ==
    LET v == FindStringSubmatch(eval)
    IN  IF Branch(eval) = "entry"
        THEN CreateEntryTx(st, bktname, v[2], v[3])
        ELSE CreateBucketTx(st, bktname)

\* What CreateBucketOrEntry returns when its transaction returned err:
\* the value of db.Update is dropped and line 130 returns nil.
CreateReturn(err) == OK

CreateBucketOrEntry(callOk, bktname) ==
    LET eval == buffer[cursor] IN
    /\ running
    /\ UNCHANGED <<db, open, keymaps, buffer, cursor, isEntry, val>>
    /\ IF ~callOk
       THEN /\ last' = Result("create", bktname, ErrGetBucket)
            /\ UNCHANGED <<files, running>>
       ELSE IF ~StartsTx(eval)
       THEN /\ last' = Result("create", bktname, ErrNoMatch)
            /\ UNCHANGED <<files, running>>
       ELSE IF db = NoDB
       THEN /\ last' = Result("create", bktname, Panic)
            /\ running' = FALSE
            /\ UNCHANGED files
       ELSE LET tx == CreateTx(files[db], eval, bktname)
            IN  /\ files' = [files EXCEPT ![db] = Update(files[db], tx)]
                /\ last' = Result("create", bktname, CreateReturn(tx.err))
                /\ UNCHANGED running

-----------------------------------------------------------------------------
(* LoadBolt and CreateBolt *)

Arrow == <<SP, "=", ">", SP>>

\* fmt.Sprintf("\t%s => %s", k, v)
EntryLine(k, v) == <<TAB>> \o k \o Arrow \o v

\* The lines built for one bucket at lines 177-182: its name, then one
\* line per entry in cursor (key) order.
RECURSIVE EntryLines(_, _)
EntryLines(bkt, keys) ==
    IF keys = <<>> THEN <<>>
    ELSE <<EntryLine(Head(keys), bkt[Head(keys)])>> \o EntryLines(bkt, Tail(keys))

BucketLines(st, name) == <<name>> \o EntryLines(st[name], SortedSeq(DOMAIN st[name]))

\* NextStart that writes every bucket from the top of the buffer.
NextStartTop(end) == 0

\* First line index the next bucket is written from (line 184).
NextStart(end) == end + 1

\* tx.ForEach at lines 175-187 over the bucket names still to visit, with
\* the locals start and end and the buffer: the buffer it leaves.
RECURSIVE ForEach(_, _, _, _, _)
ForEach(st, names, start, end, buf) ==
    IF names = <<>> THEN buf
    ELSE LET lines == BucketLines(st, Head(names))
             end1 == end + 1 + (Len(lines) - 1)
             start2 == NextStart(end1)
         IN  ForEach(st, Tail(names), start2, start2 + 1,
                     SetBufferLines(buf, start, end1 + 1, lines))

\* The closure passed to db.View at lines 172-189.
ViewTx(st, buf) == ForEach(st, SortedSeq(DOMAIN st), 0, 1, buf)

\* bbolt.Open(path, 0644, nil) with no timeout waits for the file lock for
\* ever when another handle of this process holds the file.
OpenBlocks(path) == path \in open

LoadBolt(path, openOk) ==
    LET cleared == SetBufferLines(buffer, 0, -1, <<>>) IN
    /\ running
    /\ keymaps' = TRUE
    /\ cursor' = 1
    /\ UNCHANGED <<files, running, isEntry, val>>
    /\ IF OpenBlocks(path)
       THEN /\ buffer' = cleared
            /\ last' = Result("load", <<>>, Blocked)
            /\ UNCHANGED <<db, open>>
       ELSE IF ~openOk
       THEN /\ buffer' = cleared
            /\ db' = NoDB
            /\ last' = Result("load", <<>>, ErrOpen)
            /\ UNCHANGED open
       ELSE /\ db' = path
            /\ open' = open \cup {path}
            /\ buffer' = ViewTx(files[path], cleared)
            /\ last' = Result("load", <<>>, OK)

\* CreateBolt runs on BufNewFile: the file does not exist, no handle holds it.
CreateBolt(path, openOk) ==
    /\ running
    /\ path \notin open
    /\ keymaps' = TRUE
    /\ UNCHANGED <<files, running, isEntry, val>>
    /\ IF ~openOk
       THEN /\ db' = NoDB
            /\ last' = Result("new", <<>>, ErrOpen)
            /\ UNCHANGED open
       ELSE /\ db' = path
            /\ open' = open \cup {path}
            /\ last' = Result("new", <<>>, OK)

-----------------------------------------------------------------------------
(* The events of the host editor *)

BucketNames == << <<"a">>, <<"b">>, <<"c">>, <<"d">>, <<"a", "a">> >>

\* What GetBoltBucket may hand to a handler.
CallBuckets == {<<>>, <<"a">>}

\* Lines the user types.
TypedLines ==
    { <<>>, <<"a">>,
      <<TAB, "k", "=", ">", "v">>, <<TAB, "k", "=", ">", "w">>,
      <<TAB, "=", ">", "v">>, <<TAB, "k">> }

BufRead(path, openOk) == LoadBolt(path, openOk) /\ UNCHANGED pc

\* The host shows the new document's empty buffer, then runs CreateBolt.
BufNewFile(path, openOk) ==
    /\ CreateBolt(path, openOk)
    /\ buffer' = << <<>> >>
    /\ cursor' = 1
    /\ UNCHANGED pc

BoltviewerCreateBucketEntry(callOk, bktname) ==
    CreateBucketOrEntry(callOk, bktname) /\ UNCHANGED pc

BoltviewerDeleteBucketEntry(callOk, bktname) ==
    DeleteBucketOrEntry(callOk, bktname) /\ UNCHANGED pc

UserType(l) ==
    /\ running
    /\ buffer[cursor] # l
    /\ buffer' = [buffer EXCEPT ![cursor] = l]
    /\ last' = Result("edit", <<>>, OK)
    /\ UNCHANGED <<files, db, open, cursor, keymaps, running, pc, isEntry, val>>

MoveCursor(n) ==
    /\ running
    /\ n # cursor
    /\ cursor' = n
    /\ last' = Result("move", <<>>, OK)
    /\ UNCHANGED <<files, db, open, buffer, keymaps, running, pc, isEntry, val>>

\* plugin.Main returns when the host closes the channel; main calls no Close.
Exit ==
    /\ running
    /\ running' = FALSE
    /\ last' = Result("exit", <<>>, OK)
    /\ UNCHANGED <<files, db, open, buffer, cursor, keymaps, pc, isEntry, val>>

\* A store of one bucket.
OneBucket(name, bkt) == [b \in {name} |-> bkt]

\* An entry set of one entry.
OneEntry(k, v) == [x \in {k} |-> v]

\* What the documents hold when the plugin starts.
InitStores ==
    { EmptyStore,
      OneBucket(<<"a">>, EmptyBucket),
      OneBucket(<<"a">>, OneEntry(<<"k">>, <<"v">>)) }

Init ==
    /\ files \in [Paths -> InitStores]
    /\ db = NoDB
    /\ open = {}
    /\ buffer = << <<>> >>
    /\ cursor = 1
    /\ keymaps = FALSE
    /\ running = TRUE
    /\ last = Result("start", <<>>, OK)
    /\ pc = "run"
    /\ isEntry = FALSE
    /\ val = <<>>

Next ==
    \/ \E p \in Paths, ok \in BOOLEAN : BufRead(p, ok)
    \/ \E p \in Paths, ok \in BOOLEAN : BufNewFile(p, ok)
    \/ \E ok \in BOOLEAN, b \in CallBuckets : BoltviewerCreateBucketEntry(ok, b)
    \/ \E ok \in BOOLEAN, b \in CallBuckets : BoltviewerDeleteBucketEntry(ok, b)
    \/ \E l \in TypedLines : UserType(l)
    \/ \E n \in 1..Len(buffer) : MoveCursor(n)
    \/ Exit

Spec == Init /\ [][Next]_vars

-----------------------------------------------------------------------------
(* Properties of the handlers, checked under Spec *)

\* The line a handler is given: getline(line(".")).
Eval == buffer[cursor]

\* The step is a call of the handler op that got its bucket name.
Called(op) == last'.op = op /\ last'.res # ErrGetBucket

\* The step is a call of op on a handle that holds a store.
CalledOnStore(op) == Called(op) /\ db # NoDB

\* C1: DeleteBucketOrEntry on a bucket line, with the current bucket in the
\* store: if the bucket has no entry the call succeeds and the bucket is
\* gone; if it has an entry the call returns "bucket has entry, should
\* delete entry first" and the store of every document and the buffer are
\* what they were.
C1_DeleteBucketOnlyWhenEmpty ==
    [][ ( /\ CalledOnStore("delete")
          /\ ~HasLeadingSpace(Eval)
          /\ HasBucket(files[db], last'.bkt) )
        => IF DOMAIN files[db][last'.bkt] = {}
           THEN /\ last'.res = OK
                /\ ~HasBucket(files'[db], last'.bkt)
           ELSE /\ last'.res = ErrBucketHasEntry
                /\ files' = files
                /\ buffer' = buffer ]_vars

\* C1 witness: a delete on a bucket line was refused because the bucket
\* has an entry.
C1_Witness ==
    /\ last.op = "delete"
    /\ last.res = ErrBucketHasEntry
    /\ db # NoDB
    /\ HasBucket(files[db], last.bkt)
    /\ DOMAIN files[db][last.bkt] # {}
    /\ ~HasLeadingSpace(Eval)

\* The step is a create on an entry line whose key is in the current bucket.
CreateOnExistingKey ==
    /\ CalledOnStore("create")
    /\ Branch(Eval) = "entry"
    /\ HasBucket(files[db], last'.bkt)
    /\ FindStringSubmatch(Eval)[2] \in DOMAIN files[db][last'.bkt]

C5_MalformedLineRejected ==
    [][ ( /\ Called("create") \/ Called("delete")
          /\ HasLeadingSpace(Eval)
          /\ Len(FindStringSubmatch(Eval)) # 3 )
        => /\ last'.res = ErrNoMatch
           /\ files' = files
           /\ buffer' = buffer ]_vars

\* C5 witness: a delete on a malformed line was refused while the current
\* bucket exists and is empty.
C5_Witness ==
    /\ last.op = "delete"
    /\ last.res = ErrNoMatch
    /\ HasLeadingSpace(Eval)
    /\ db # NoDB
    /\ HasBucket(files[db], last.bkt)
    /\ DOMAIN files[db][last.bkt] = {}

\* The error of the transaction the step's handler runs.
TxErr ==
    IF last'.op = "create" THEN CreateTx(files[db], Eval, last'.bkt).err
    ELSE DeleteTx(files[db], buffer, cursor, last'.bkt).err

\* C6 as stated: a create or delete whose store transaction failed does
\* not return success.
C6_StoreFailureReturned ==
    [][ ( /\ CalledOnStore("create") \/ CalledOnStore("delete")
          /\ StartsTx(Eval)
          /\ TxErr # OK )
        => last'.res # OK ]_vars

\* C7 as stated: at most one store handle is open at any time.
C7_SingleOpenHandle == Cardinality(open) <= 1

\* C9 as stated: after a delete, every document's buckets and every
\* bucket's entries are among those it had before.
C9_DeleteAddsNothing ==
    [][ last'.op = "delete"
        => \A p \in Paths :
             /\ DOMAIN files'[p] \subseteq DOMAIN files[p]
             /\ \A b \in DOMAIN files'[p] :
                  /\ DOMAIN files'[p][b] \subseteq DOMAIN files[p][b]
                  /\ \A k \in DOMAIN files'[p][b] :
                       files'[p][b][k] = files[p][b][k] ]_vars

\* C10 as stated: once the keymaps are registered, a create or delete that
\* starts a store transaction runs on a successfully opened handle.
C10_TxOnOpenHandle ==
    [][ ( /\ Called("create") \/ Called("delete")
          /\ keymaps
          /\ StartsTx(Eval) )
        => db \in open ]_vars

-----------------------------------------------------------------------------
(* The pattern match on its own: every short line, and "\tfoo => bar" *)

LineChars == {SP, TAB, "=", ">", "a"}

\* The strings over LineChars of length n.
RECURSIVE LinesOfLen(_)
LinesOfLen(n) ==
    IF n = 0 THEN { <<>> }
    ELSE { <<c>> \o l : c \in LineChars, l \in LinesOfLen(n - 1) }

ShortLines == UNION { LinesOfLen(n) : n \in 0..MaxLineLen }

FooBarLine == <<TAB, "f", "o", "o", SP, "=", ">", SP, "b", "a", "r">>

\* Lines 40-44 (95-99): isEntry, and val when the line is indented.
MatchLine ==
    /\ pc = "line"
    /\ isEntry' = HasLeadingSpace(Eval)
    /\ val' = IF HasLeadingSpace(Eval) THEN FindStringSubmatch(Eval) ELSE <<>>
    /\ pc' = "matched"
    /\ UNCHANGED <<files, db, open, buffer, cursor, keymaps, running, last>>

InitMatch ==
    /\ files = [p \in Paths |-> EmptyStore]
    /\ db = NoDB
    /\ open = {}
    /\ buffer \in { <<l>> : l \in ShortLines \cup {FooBarLine} }
    /\ cursor = 1
    /\ keymaps = FALSE
    /\ running = TRUE
    /\ last = Result("start", <<>>, OK)
    /\ pc = "line"
    /\ isEntry = FALSE
    /\ val = <<>>

NextMatch == MatchLine

SpecMatch == InitMatch /\ [][NextMatch]_vars

\* The handlers take the entry branch.
Accepted == isEntry /\ Len(val) = 3

\* s holds "=>" somewhere.
HasArrow(s) == \E x \in 1..(Len(s) - 1) : s[x] = "=" /\ s[x + 1] = ">"

\* C4: the entry-line pattern accepts "\tfoo => bar" with key "foo" and
\* value "bar", and accepts no line that does not start with a space or a
\* tab and no line without "=>".
C4_EntryPattern ==
    pc = "matched" =>
        /\ Eval = FooBarLine =>
             /\ Accepted
             /\ val[2] = <<"f", "o", "o">>
             /\ val[3] = <<"b", "a", "r">>
        /\ (Eval = <<>> \/ Eval[1] \notin {SP, TAB}) => ~Accepted
        /\ ~HasArrow(Eval) => ~Accepted

\* C4 witness: "\tfoo => bar" has been matched and taken as an entry line.
C4_Witness == pc = "matched" /\ Eval = FooBarLine /\ Accepted

-----------------------------------------------------------------------------
(* The listing scenario: LoadBolt lists document p1, then every line of *)
(* the listing is handed to CreateBucketOrEntry on the new document p2  *)

\* GetBoltBucket of the host: the name on the nearest bucket line at or
\* above the line, the empty string when there is none.
GetBoltBucket(buf, line) ==
    LET above == { x \in 1..line : ~HasLeadingSpace(buf[x]) }
    IN  IF above = {} THEN <<>>
        ELSE buf[CHOOSE x \in above : \A y \in above : y <= x]

ListKeys == { <<"k">>, <<"a", SP, "b">> }
ListValues == { <<"v">>, <<>> }

\* The entry sets over ListKeys and ListValues.
ListBuckets == UNION { [K -> ListValues] : K \in SUBSET ListKeys }

\* The stores whose buckets are among the first MaxBuckets of BucketNames.
ListStores ==
    UNION { [B -> ListBuckets] :
              B \in SUBSET { BucketNames[x] :
                               x \in 1..Min(MaxBuckets, Len(BucketNames)) } }

ListLoad ==
    /\ pc = "load"
    /\ LoadBolt("p1", TRUE)
    /\ pc' = "new"

ListNew ==
    /\ pc = "new"
    /\ CreateBolt("p2", TRUE)
    /\ UNCHANGED <<buffer, cursor>>
    /\ pc' = "call"

ListCall ==
    /\ pc = "call"
    /\ CreateBucketOrEntry(TRUE, GetBoltBucket(buffer, cursor))
    /\ pc' = "move"

ListMove ==
    /\ pc = "move"
    /\ IF cursor < Len(buffer)
       THEN cursor' = cursor + 1 /\ pc' = "call"
       ELSE cursor' = cursor /\ pc' = "done"
    /\ UNCHANGED <<files, db, open, buffer, keymaps, running, last, isEntry, val>>

InitList ==
    /\ files \in { [p \in Paths |-> IF p = "p1" THEN st ELSE EmptyStore] :
                     st \in ListStores }
    /\ db = NoDB
    /\ open = {}
    /\ buffer = << <<"a">>, <<TAB, "a">> >>
    /\ cursor = 2
    /\ keymaps = FALSE
    /\ running = TRUE
    /\ last = Result("start", <<>>, OK)
    /\ pc = "load"
    /\ isEntry = FALSE
    /\ val = <<>>

NextList == ListLoad \/ ListNew \/ ListCall \/ ListMove

SpecList == InitList /\ [][NextList]_vars

\* C3 as stated: once every line of the listing of p1 has been handed to
\* CreateBucketOrEntry on the empty p2, p2 holds the buckets and entries
\* of p1.
C3_ListingRoundTrips == pc = "done" => files["p2"] = files["p1"]

\* The blocks of the buckets named, one after the other.
RECURSIVE Blocks(_, _)
Blocks(st, names) ==
    IF names = <<>> THEN <<>>
    ELSE BucketLines(st, Head(names)) \o Blocks(st, Tail(names))

\* C8: after LoadBolt the buffer holds the blocks of the store's buckets in
\* iteration order and nothing else (an empty store leaves the host's one
\* empty line).
C8_BufferIsListing ==
    pc = "new" =>
        LET listing == Blocks(files["p1"], SortedSeq(DOMAIN files["p1"]))
        IN  buffer = IF listing = <<>> THEN << <<>> >> ELSE listing

\* C8 witness: LoadBolt has listed a store of three buckets, one of them
\* with two entries and one with none.
C8_Witness ==
    /\ pc = "new"
    /\ Cardinality(DOMAIN files["p1"]) >= 3
    /\ \E b \in DOMAIN files["p1"] : Cardinality(DOMAIN files["p1"][b]) = 2
    /\ \E b \in DOMAIN files["p1"] : DOMAIN files["p1"][b] = {}
    /\ Len(buffer) >= 5

====
